---- MODULE Spec2Model ----
(***************************************************************************)
(* HookService of grid/services/torch/hook_service.py: the pointer proxy   *)
(* model (send_/get_), the dispatch of hooked torch functions and methods  *)
(* (overload_function / overload_method) and the handling of a worker's    *)
(* response (process_response / assemble_result_pointer), as run by the    *)
(* single control thread of the local worker.                              *)
(*                                                                         *)
(* heap     the torch objects the caller holds on the local worker         *)
(* objects  the local worker's registry, worker.objects: id -> object      *)
(* remote   the registries of the other workers                            *)
(* last     the last intercepted operation: its inputs, what it sent and   *)
(*          what it returned or raised                                     *)
(* ops      the number of operations issued so far                         *)
(* hooked   the attributes of the hooked tensor type                       *)
(***************************************************************************)
EXTENDS Integers, Sequences, FiniteSets, TLC

VARIABLES heap, objects, remote, last, ops, hooked

vars == <<heap, objects, remote, last, ops, hooked>>

\* ---------------------------------------------------------------- bounds
\* operations issued by the caller in one run
MaxOps == 4
\* distinct tensor payloads
MaxData == 1
\* workers named in one send
MaxDests == 2

\* ------------------------------------------------------------- universe
\* self.worker.id
SelfId == "A"
Workers == {"A", "B", "C"}
Remote == Workers \ {SelfId}

\* BaseService.tensor_types, var_types, tensorvar_types: the tracked types
tensor_types == {"FloatTensor"}
var_types == {"Variable"}
tensorvar_types == tensor_types \cup var_types

Data == 1..MaxData
\* storage of a zero-sized tensor, tensor_type(0)
Empty == 0
\* registry entry of an object no name of the caller refers to
Temp == -1

Range(s) == {s[i] : i \in 1..Len(s)}

\* destinations of a send: non-empty duplicate-free worker sequences of at
\* most MaxDests workers, in the order A, B, C
WorkerRank(w) == CASE w = "A" -> 1 [] w = "B" -> 2 [] OTHER -> 3

Dests == {s \in UNION {[1..n -> Workers] : n \in 1..MaxDests} :
            \A i, j \in 1..Len(s) : i < j => WorkerRank(s[i]) < WorkerRank(s[j])}

\* ------------------------------------------------------------- objects
\* a Python torch object: registration attributes, storage and class; of a
\* Variable also the tensor it holds as its data (base: the caller's name
\* for that tensor, 0 when the caller has none) and the marks that
\* new_data and new_grad set on it
NoObj == [id |-> 0, owners |-> <<>>, is_pointer |-> FALSE, data |-> Empty, ttype |-> "none",
          base |-> 0, data_registered |-> FALSE, grad_registered |-> FALSE]

\* an object as the library creates it, before any registration
RawObj(t, d) == [NoObj EXCEPT !.data = d, !.ttype = t]

Slots == 1..Len(heap)

\* the id a registration without id draws next
NextId == Len(objects) + 1

\* worker.objects[id] = s; ids drawn in between are in no local registry
Put(objs, id, s) ==
    [i \in 1..(IF id > Len(objs) THEN id ELSE Len(objs)) |->
        IF i = id THEN s ELSE IF i <= Len(objs) THEN objs[i] ELSE 0]

\* BaseService.register_object(obj, **kwargs): sets the attributes given,
\* draws a fresh id when none is given; a registration under a given id
\* leaves the owners of the object as they are unless owners are given, a
\* new registration makes the local worker the owner; is_pointer is False
\* unless given.
register_object(obj, kwargs, fresh) ==
    [obj EXCEPT
        !.id = IF "id" \in DOMAIN kwargs THEN kwargs.id ELSE fresh,
        !.owners = IF "owners" \in DOMAIN kwargs THEN kwargs.owners
                   ELSE IF "id" \in DOMAIN kwargs /\ obj.owners # <<>> THEN obj.owners
                   ELSE <<SelfId>>,
        !.is_pointer = IF "is_pointer" \in DOMAIN kwargs THEN kwargs.is_pointer ELSE FALSE]

\* tu.check_workers: the destinations as a sequence
check_workers(self, workers) == workers

\* Tensor.set_ as saved under old_set_: self takes the storage of source
old_set_(self, source) == [self EXCEPT !.data = source.data]

\* obj.ser(include_data=True): the wire payload of an object
ser(obj, include_data) ==
    [id |-> obj.id, owners |-> obj.owners, torch_type |-> obj.ttype,
     data |-> IF include_data THEN obj.data ELSE Empty]

\* the receiving torch service: deserialization is symmetric and the object
\* is held as a non-pointer
receive_obj(msg) ==
    [id |-> msg.id, owners |-> msg.owners, is_pointer |-> FALSE,
     data |-> msg.data, ttype |-> msg.torch_type]

\* a worker's registry with obj registered under its id
Store(registry, obj) == {r \in registry : r.id # obj.id} \cup {obj}

Holds(w, id) == w \in Remote /\ \E r \in remote[w] : r.id = id

Held(w, id) == IF Holds(w, id) THEN CHOOSE r \in remote[w] : r.id = id ELSE NoObj

\* ------------------------------------------------------- last operation
NoResp == [py |-> "none", keys |-> {}, registration |-> [id |-> 0, owners |-> <<>>, is_pointer |-> FALSE],
           torch_type |-> "none", numeric |-> 0]

NoSnap == [h |-> 0, id |-> 0, data |-> Empty, dest |-> <<>>]

NoLast == [op |-> "init", h |-> 0, kind |-> "ok", ret |-> 0, val |-> 0,
           sent |-> <<>>, pre |-> NoObj, preobjects |-> <<>>, snap |-> NoSnap,
           dest |-> <<>>, collected |-> <<>>, reduce |-> "none", resp |-> NoResp,
           route |-> "none", npointers |-> 0, nowners |-> 0, result |-> "none",
           part |-> <<>>, command |-> <<>>]

\* --------------------------------------------------------------- hooking
\* the attributes of a tensor type that the library defines: methods
\* implemented in C (method descriptors) and methods written in Python
LibDescriptors == {"add", "add_", "dot", "set_", "size"}

LibFunctions == {"view_as"}

\* dir(object)
BaseAttrs == {"__new__", "__init__", "__repr__"}

\* line 21: self.exclude
exclude == {"ndimension", "nelement", "size", "numel", "type", "tolist", "dim", "__iter__",
            "select"}

\* the attributes that the hook pass adds itself
GridAttrs == {"send_", "get_", "ser"}

\* 'old_{}'.format(attr)
OldName(a) ==
    CASE a = "add" -> "old_add"
      [] a = "add_" -> "old_add_"
      [] a = "dot" -> "old_dot"
      [] a = "set_" -> "old_set_"
      [] a = "size" -> "old_size"
      [] a = "view_as" -> "old_view_as"
      [] a = "send_" -> "old_send_"
      [] a = "get_" -> "old_get_"
      [] a = "ser" -> "old_ser"
      [] a = "__new__" -> "old___new__"
      [] OTHER -> "old__repr__"

Hookable == LibDescriptors \cup LibFunctions \cup GridAttrs

OldNames == {OldName(a) : a \in Hookable} \cup {"old___new__", "old__repr__"}

AttrNames == Hookable \cup BaseAttrs \cup OldNames

\* the value of an attribute: what type() says of it, whether its
\* __qualname__ names HookService, and the number of wrappers of this
\* service between it and the implementation of the library
Absent == [type |-> "none", qualname |-> "none", wraps |-> 0]

LibValue(a) ==
    [type |-> IF a \in LibFunctions THEN "function" ELSE "method_descriptor",
     qualname |-> "torch", wraps |-> 0]

\* a function defined in a method of HookService (send_, get_, new___new__)
\* around the value it calls through
ServiceFunction(inner) == [type |-> "function", qualname |-> "HookService", wraps |-> inner.wraps + 1]

\* a function defined in a function of torch_utils (ser, defined in
\* hook_tensor_ser): its __qualname__ does not name HookService
UtilFunction(inner) == [type |-> "function", qualname |-> "torch_utils", wraps |-> inner.wraps + 1]

\* the tensor type as the library defines it, with some of its methods
LibraryType(present) ==
    [a \in AttrNames |->
        IF a \in BaseAttrs \/ a \in present THEN LibValue(a) ELSE Absent]

\* dir(tensor_type)
dir(attrs) == {a \in AttrNames : attrs[a] # Absent}

\* inspect.ismethoddescriptor(lit)
is_desc(lit) == lit.type = "method_descriptor"

\* type(lit)==FunctionType
is_func(lit) == lit.type = "function"

\* 'HookService' in lit.__qualname__
is_service_func(lit) == lit.qualname = "HookService"

\* re.match('old*', attr) is not None: the name starts with 'ol'
is_old(a) == a \in OldNames

\* lines 389-403: the attribute is overloaded
hooks_attr(attrs, a) ==
    /\ a \in dir(attrs)
    /\ a \notin exclude
    /\ is_desc(attrs[a]) \/ (is_func(attrs[a]) /\ ~is_service_func(attrs[a]))
    /\ a \notin BaseAttrs
    /\ ~is_old(a)

\* overload_method(pass_method_args(lit)): both wrappers are @wraps, which
\* copies __qualname__ from the function wrapped
overload_method_attr(lit) == [type |-> "function", qualname |-> lit.qualname, wraps |-> lit.wraps + 1]

\* lines 382-384: __init__, __new__ and __repr__ are replaced, the former
\* __new__ and __repr__ saved under old___new__ and old__repr__
hook_special(attrs) ==
    [attrs EXCEPT
        !["__init__"] = ServiceFunction(LibValue("__init__")),
        !["old___new__"] = attrs["__new__"],
        !["__new__"] = ServiceFunction(attrs["__new__"]),
        !["old__repr__"] = attrs["__repr__"],
        !["__repr__"] = ServiceFunction(attrs["__repr__"])]

\* lines 386-407: the loop over dir(tensor_type)
hook_loop(attrs) ==
    [a \in AttrNames |->
        IF hooks_attr(attrs, a) THEN overload_method_attr(attrs[a])
        ELSE IF \E b \in Hookable : hooks_attr(attrs, b) /\ OldName(b) = a
        THEN attrs[CHOOSE b \in Hookable : hooks_attr(attrs, b) /\ OldName(b) = a]
        ELSE attrs[a]]

\* lines 410-412: send_ and get_ are set by methods of HookService, ser by
\* tu.hook_tensor_ser
hook_grid(attrs) ==
    [attrs EXCEPT
        !["send_"] = ServiceFunction(LibValue("send_")),
        !["get_"] = ServiceFunction(LibValue("get_")),
        !["ser"] = UtilFunction(LibValue("ser"))]

\* hook_tensor(tensor_type)
hook_tensor(attrs) == hook_grid(hook_loop(hook_special(attrs)))

\* ---------------------------------------------------------------- Init
\* HookService.__init__ has run: the tensor type is hooked once
Init ==
    /\ heap = <<>>
    /\ objects = <<>>
    /\ remote = [w \in Remote |-> {}]
    /\ last = NoLast
    /\ ops = 0
    /\ hooked = hook_tensor(LibraryType(LibDescriptors \cup LibFunctions))

\* ------------------------------------------------------- construction
\* one construction: tensor types run the hooked __new__ and then the
\* hooked __init__, Variable only the hooked __new__
\* a __new__ that returns the object of the library as it is
new___new___unhooked(t, d, fresh) == RawObj(t, d)

\* hook_tensor___new__.new___new__ / hook_var___new__.new___new__
new___new__(t, d, fresh) == register_object(RawObj(t, d), [is_pointer |-> FALSE], fresh)

\* hook_tensor___init__.new___init__
new___init__(self, fresh) == register_object(self, [is_pointer |-> FALSE], fresh)

\* the object that tensor_type(d) returns when the first id it draws is fresh
constructed(t, d, fresh) ==
    IF t \in tensor_types
    THEN new___init__(new___new__(t, d, fresh), fresh + 1)
    ELSE new___new__(t, d, fresh)

\* the registry after the registrations of one construction of object s
ctor_objects(objs, t, fresh, s) ==
    IF t \in tensor_types THEN Put(Put(objs, fresh, s), fresh + 1, s) ELSE Put(objs, fresh, s)

\* the caller issues one more operation
Issue == ops < MaxOps /\ ops' = ops + 1

Construct(t, d) ==
    LET s == Len(heap) + 1
        obj == constructed(t, d, NextId)
    IN /\ Issue
       /\ UNCHANGED hooked
       /\ heap' = Append(heap, obj)
       /\ objects' = ctor_objects(objects, t, NextId, s)
       /\ last' = [NoLast EXCEPT !.op = "construct", !.h = s, !.ret = s]
       /\ UNCHANGED remote

\* Variable(tensor) on a tensor the caller holds: the Variable that the
\* hooked __new__ returns has the storage of the tensor and holds the
\* tensor itself as its data
ConstructVariable(h) ==
    LET s == Len(heap) + 1
        obj == [constructed("Variable", heap[h].data, NextId) EXCEPT !.base = h]
    IN /\ Issue
       /\ UNCHANGED hooked
       /\ heap[h].ttype \in tensor_types
       /\ heap' = Append(heap, obj)
       /\ objects' = ctor_objects(objects, "Variable", NextId, s)
       /\ last' = [NoLast EXCEPT !.op = "construct", !.h = s, !.ret = s]
       /\ UNCHANGED remote

\* ------------------------------------------------ Variable.data and .grad
\* lines 339-341 and 351-353: the registration of the data or of the
\* gradient under the id, owners and is_pointer of the Variable
contents_kwargs(self) == [id |-> self.id, owners |-> self.owners, is_pointer |-> self.is_pointer]

\* self.old_grad, the gradient the library holds for the Variable: None
\* (0) as long as no backward pass has run
old_grad(self) == 0

\* hook_var_contents.new_data: the first read of v.data registers the data
\* tensor of the Variable; a tensor the caller had no name for (the data of
\* a Variable that a kernel returned) is one it now holds
new_data(h) ==
    LET self == heap[h]
        named == self.base # 0
        b == IF named THEN self.base ELSE Len(heap) + 1
        lit == IF named THEN heap[self.base] ELSE RawObj("FloatTensor", self.data)
        reg == register_object(lit, contents_kwargs(self), NextId)
        base == [NoLast EXCEPT !.op = "data", !.h = h, !.pre = self, !.preobjects = objects]
    IN /\ self.ttype \in var_types
       /\ UNCHANGED remote
       /\ IF self.data_registered
          THEN /\ UNCHANGED <<heap, objects>>
               /\ last' = [base EXCEPT !.ret = self.base]
          ELSE /\ heap' = [(IF named THEN [heap EXCEPT ![b] = reg] ELSE Append(heap, reg))
                             EXCEPT ![h].base = b, ![h].data_registered = TRUE]
               /\ objects' = Put(objects, self.id, b)
               /\ last' = [base EXCEPT !.ret = b]

\* hook_var_contents.new_grad: the first read of a gradient that is not
\* None registers it; None is returned as it is and leaves no mark
new_grad(h) ==
    LET self == heap[h]
        g == old_grad(self)
        base == [NoLast EXCEPT !.op = "grad", !.h = h, !.pre = self, !.preobjects = objects]
    IN /\ self.ttype \in var_types
       /\ UNCHANGED remote
       /\ IF self.grad_registered \/ g = 0
          THEN /\ UNCHANGED <<heap, objects>>
               /\ last' = [base EXCEPT !.ret = g]
          ELSE /\ heap' = [heap EXCEPT
                             ![g] = register_object(heap[g], contents_kwargs(self), NextId),
                             ![h].grad_registered = TRUE]
               /\ objects' = Put(objects, self.id, g)
               /\ last' = [base EXCEPT !.ret = g]

ReadData ==
    /\ Issue
    /\ UNCHANGED hooked
    /\ \E h \in Slots : new_data(h)

ReadGrad ==
    /\ Issue
    /\ UNCHANGED hooked
    /\ \E h \in Slots : new_grad(h)

\* ---------------------------------------------------------------- send_
\* a first registration of send_ that already marks the handle a pointer
send_first_as_pointer(self, workers) == [id |-> self.id, owners |-> workers, is_pointer |-> TRUE]

\* line 131: the first registration of send_
send_first_kwargs(self, workers) == [id |-> self.id, owners |-> workers]

\* line 137: the registration of the placeholder
send_final_kwargs(self, workers) == [id |-> self.id, owners |-> workers, is_pointer |-> TRUE]

\* a send_obj that publishes the header of the object without its data
send_obj_header(obj, recipient) == [ch |-> "obj", to |-> recipient, msg |-> ser(obj, FALSE)]

\* send_obj: one publish on the recipient's object channel
send_obj(obj, recipient) == [ch |-> "obj", to |-> recipient, msg |-> ser(obj, TRUE)]

\* the workers that got the payload when the publish to workers[failAt]
\* raised (failAt = 0: none raised)
Delivered(workers, failAt) == IF failAt = 0 THEN Len(workers) ELSE failAt - 1

send_(h, workersArg, failAt) ==
    LET self0 == heap[h]
        workers == check_workers(self0, workersArg)
        self1 == register_object(self0, send_first_kwargs(self0, workers), NextId)
        k == Delivered(workers, failAt)
        sentMsgs == [i \in 1..k |-> send_obj(self1, workers[i])]
        \* tensor_type(0): a constructed zero-sized tensor
        zero == constructed(self1.ttype, Empty, NextId)
        self2 == register_object(old_set_(self1, zero),
                                 send_final_kwargs(self1, workers), NextId)
    IN /\ heap[h].ttype \in tensor_types
       /\ failAt \in 0..Len(workers)
       /\ remote' = [w \in Remote |->
                       IF \E i \in 1..k : workers[i] = w
                       THEN Store(remote[w], receive_obj(send_obj(self1, w).msg))
                       ELSE remote[w]]
       /\ IF failAt = 0
          THEN /\ heap' = [heap EXCEPT ![h] = self2]
               /\ objects' = Put(ctor_objects(objects, self1.ttype, NextId, Temp), self2.id, h)
          ELSE /\ heap' = [heap EXCEPT ![h] = self1]
               /\ objects' = Put(objects, self1.id, h)
       /\ last' = [NoLast EXCEPT
                     !.op = "send", !.h = h, !.pre = self0, !.dest = workers,
                     !.kind = IF failAt = 0 THEN "ok" ELSE "TransportError",
                     !.ret = IF failAt = 0 THEN h ELSE 0,
                     !.sent = sentMsgs,
                     !.snap = IF failAt = 0 /\ ~self0.is_pointer /\ self0.owners = <<SelfId>>
                                 /\ Len(workers) = 1 /\ workers[1] # SelfId
                              THEN [h |-> h, id |-> self0.id, data |-> self0.data, dest |-> workers]
                              ELSE NoSnap]

\* the workers some object held by the caller names as owner
Named == UNION {Range(heap[h].owners) : h \in Slots}

\* B and C are interchangeable: the caller names B before it names C
InOrder(ws) == "C" \in Range(ws) => "B" \in Range(ws) \cup Named

Send ==
    /\ Issue
    /\ UNCHANGED hooked
    /\ \E h \in Slots, ws \in Dests, failAt \in 0..MaxDests :
          InOrder(ws) /\ send_(h, ws, failAt)

\* ----------------------------------------------------------------- get_
\* a get_ that never takes the early return of line 158
get_never_local(self) == FALSE

\* line 157: the local worker is among the owners
get_is_local(self) == SelfId \in Range(self.owners)

\* a final registration of get_ that makes the local worker the owner
get_reset_kwargs(self) == [id |-> self.id, owners |-> <<SelfId>>]

\* line 163: the registration of the retrieved tensor
get_final_kwargs(self) == [id |-> self.id]

\* line 162: the registration of one collected tensor
get_collected_kwargs(x) == [id |-> x.id]

\* line 144: the default reduce, lambda x: x[0]
default_reduce(collected) == collected[1]

apply_reduce(reduce, collected) ==
    IF reduce = "default" THEN default_reduce(collected) ELSE collected[Len(collected)]

Reducers == {"default", "last"}

\* request_obj: one request/response on the sender's object request channel
request_obj(obj, sender) == [ch |-> "obj_req", to |-> sender, msg |-> obj.id]

\* the first owner whose exchange raises: the one told by failAt, or the
\* first that does not hold the object; 0 when every exchange succeeds
FirstFailure(self, failAt) ==
    LET bad == {i \in 1..Len(self.owners) :
                   i = failAt \/ ~Holds(self.owners[i], self.id)}
    IN IF bad = {} THEN 0 ELSE CHOOSE i \in bad : \A j \in bad : i <= j

get_(h, reduce, failAt) ==
    LET self0 == heap[h]
        n == Len(self0.owners)
        f == FirstFailure(self0, failAt)
        asked == IF f = 0 THEN n ELSE f
        sentMsgs == [i \in 1..asked |-> request_obj(self0, self0.owners[i])]
        collected == [i \in 1..n |->
                        register_object(Held(self0.owners[i], self0.id),
                                        get_collected_kwargs(Held(self0.owners[i], self0.id)),
                                        NextId)]
        self1 == register_object(old_set_(self0, apply_reduce(reduce, collected)),
                                 get_final_kwargs(self0), NextId)
        base == [NoLast EXCEPT !.op = "get", !.h = h, !.pre = self0,
                   !.preobjects = objects, !.reduce = reduce]
    IN /\ heap[h].ttype \in tensor_types
       /\ failAt \in 0..n
       \* inputs that cannot change the outcome are not enumerated twice
       /\ (get_is_local(self0) \/ n < 2) => reduce = "default"
       /\ get_is_local(self0) => failAt = 0
       /\ failAt # 0 => f = failAt
       /\ UNCHANGED remote
       /\ IF get_is_local(self0)
          THEN /\ UNCHANGED <<heap, objects>>
               /\ last' = [base EXCEPT !.ret = h, !.route = "local"]
          ELSE IF f = 0
          THEN /\ heap' = [heap EXCEPT ![h] = self1]
               /\ objects' = Put(objects, self1.id, h)
               /\ last' = [base EXCEPT !.ret = h, !.route = "remote", !.sent = sentMsgs,
                             !.collected = [i \in 1..n |-> collected[i].data],
                             !.snap = IF last.snap.h = h THEN last.snap ELSE NoSnap]
          ELSE /\ heap' = heap
               \* the tensors collected before the failure stay registered
               /\ objects' = IF f > 1 THEN Put(objects, self0.id, Temp) ELSE objects
               /\ last' = [base EXCEPT !.kind = "TransportError", !.route = "remote",
                             !.sent = sentMsgs]

Get ==
    /\ Issue
    /\ UNCHANGED hooked
    /\ \E h \in Slots, reduce \in Reducers, failAt \in 0..MaxDests : get_(h, reduce, failAt)

\* ------------------------------------------------------------- commands
\* an argument of an intercepted call: a torch object or a plain number
NoOperand == [tag |-> "none", ref |-> 0]

TensorOperand(h) == [tag |-> "tensor", ref |-> h]

ScalarOperand == [tag |-> "int", ref |-> 7]

\* the arguments a caller can pass: the objects it holds, or a number
Operands == {TensorOperand(h) : h \in Slots} \cup {ScalarOperand}

KwNames == {"out"}

\* keyword arguments in call order: at most one per name
KwArgs == {<<>>} \cup {<<[name |-> k, value |-> TensorOperand(h)]>> : k \in KwNames, h \in Slots}

\* type(x).__name__
type_name(x) == IF x.tag = "tensor" THEN heap[x.ref].ttype ELSE x.tag

\* pass_func_args.pass_args: partial(func, *args, **kwargs)
pass_func_args(func, args, kwargs) == [func |-> func, args |-> args, keywords |-> kwargs]

\* pass_method_args.pass_args: partialmethod(method, self, *args, **kwargs)
pass_method_args(method, self, args, kwargs) ==
    [func |-> method, args |-> <<self>> \o args, keywords |-> kwargs]

\* a Python list, a Python dict with its items in insertion order
PyList(items) == [py |-> "list", items |-> items]

PyMapping(items) == [py |-> "dict", items |-> items]

compile_command(partial_func, has_self) ==
    LET args == IF has_self THEN Tail(partial_func.args) ELSE partial_func.args
        kwargs == partial_func.keywords
    IN [has_self |-> has_self,
        self |-> IF has_self THEN partial_func.args[1] ELSE NoOperand,
        command |-> partial_func.func,
        args |-> args,
        kwargs |-> kwargs,
        arg_types |-> [i \in 1..Len(args) |-> type_name(args[i])],
        kwarg_types |-> PyList([i \in 1..Len(kwargs) |-> type_name(kwargs[i].value)])]

\* tu.get_tensorvars: every torch object among self, args and kwargs
get_tensorvars(command) ==
    {x.ref : x \in {y \in ({command.self} \cup Range(command.args)
                            \cup {command.kwargs[i].value : i \in 1..Len(command.kwargs)}) :
                       y.tag = "tensor"}}

\* tu.check_remote: some operand is a pointer
check_remote(tensorvars) == \E h \in tensorvars : heap[h].is_pointer

\* tu.get_owners: the owners of the operands
get_owners(tensorvars) == UNION {Range(heap[h].owners) : h \in tensorvars}

\* tu.get_owners: there are several
multiple_owners(tensorvars) == Cardinality(get_owners(tensorvars)) > 1

\* tu.replace_in_command: torch objects become references by id
replace_in_command(command) ==
    LET ref(x) == IF x.tag = "tensor" THEN [tag |-> "id", ref |-> heap[x.ref].id] ELSE x
    IN [command EXCEPT
          !.self = ref(command.self),
          !.args = [i \in 1..Len(command.args) |-> ref(command.args[i])],
          !.kwargs = [i \in 1..Len(command.kwargs) |->
                        [name |-> command.kwargs[i].name, value |-> ref(command.kwargs[i].value)]]]

\* send_command: one request/response on the recipient's command channel
send_command(command, recipient) == [ch |-> "command", to |-> recipient, msg |-> command]

\* ------------------------------------------------------------ responses
\* a decoded response: a mapping with some keys, or a bare number
PyDict(keys, registration, torch_type, numeric) ==
    [py |-> "dict", keys |-> keys, registration |-> registration,
     torch_type |-> torch_type, numeric |-> numeric]

PyNum(n) == [NoResp EXCEPT !.py = "num", !.numeric = n]

\* what a worker may answer to a command whose result it registers as rid
ResponseShapes == {"pointer", "unknown_type", "numeric", "empty", "bare"}

WorkerResponse(shape, w, rid) ==
    CASE shape = "pointer" ->
           PyDict({"registration", "torch_type"},
                  [id |-> rid, owners |-> <<w>>, is_pointer |-> TRUE], "FloatTensor", 0)
      [] shape = "unknown_type" ->
           PyDict({"registration", "torch_type"},
                  [id |-> rid, owners |-> <<w>>, is_pointer |-> TRUE], "str", 0)
      [] shape = "numeric" -> PyDict({"numeric"}, NoResp.registration, "none", 7)
      [] shape = "empty" -> PyDict({}, NoResp.registration, "none", 0)
      [] shape = "bare" -> PyNum(7)
      [] OTHER -> NoResp

\* utils.unpack: the decoded body of a message
unpack(message) == message.data

\* process_response: response['numeric'], or the response on KeyError; a
\* response that is no mapping cannot be subscripted by a name
process_response(response) ==
    LET r == unpack(response)
    IN IF r.py # "dict" THEN [exc |-> "TypeError", value |-> r]
       ELSE IF "numeric" \in r.keys THEN [exc |-> "none", value |-> PyNum(r.numeric)]
       ELSE [exc |-> "none", value |-> r]

\* tu.types_guard: the torch class of a type name, KeyError when unknown
types_guard_known(torch_type) == torch_type \in tensorvar_types

\* the names bound where the except clause of assemble_result_pointer
\* formats its message: the module's imports and the method's locals
\* (from types import * binds no name that starts with an underscore)
BoundNames == {"torch", "BaseService", "channels", "utils", "tu", "OrderedDict", "wraps",
               "partial", "partialmethod", "inspect", "random", "re", "HookService",
               "self", "registration", "torch_type"}

\* lines 75-78: the exception that leaves the except clause, which names
\* _tensor_type
guard_failure == IF "_tensor_type" \in BoundNames THEN "TypeError" ELSE "NameError"

\* an assemble_result_pointer that returns torch_type(0) as constructed
assemble_unregistered(registration, torch_type, fresh) ==
    IF ~types_guard_known(torch_type)
    THEN [exc |-> guard_failure, obj |-> NoObj]
    ELSE [exc |-> "none", obj |-> constructed(torch_type, Empty, fresh)]

\* assemble_result_pointer(registration, torch_type)
assemble_result_pointer(registration, torch_type, fresh) ==
    IF ~types_guard_known(torch_type)
    THEN [exc |-> guard_failure, obj |-> NoObj]
    ELSE [exc |-> "none",
          obj |-> register_object(constructed(torch_type, Empty, fresh), registration, fresh)]

\* lines 211-216 and 261-266: the pointer of a response, or the response
\* itself when it has no 'registration' or no 'torch_type' key; a response
\* that is no mapping cannot be subscripted by a name
pointer_or_response(response, fresh) ==
    IF response.py # "dict"
    THEN [exc |-> "TypeError", result |-> "none", obj |-> NoObj]
    ELSE IF ~({"registration", "torch_type"} \subseteq response.keys)
    THEN [exc |-> "none", result |-> "response", obj |-> NoObj]
    ELSE LET p == assemble_result_pointer(response.registration, response.torch_type, fresh)
         IN [exc |-> p.exc, result |-> IF p.exc = "none" THEN "tensor" ELSE "none", obj |-> p.obj]

\* ------------------------------------------------------ numeric kernels
Funcs == {"add", "dot"}

Methods == {"add", "add_", "dot"}

\* what the library's own implementation returns: a new object, the
\* receiver (in-place methods) or a plain number
kernel_result(name, has_self) ==
    IF name = "dot" THEN "scalar"
    ELSE IF name = "add_" /\ has_self THEN "self"
    ELSE "new"

\* the torch operands of a call, in call order
OperandSeq(all) ==
    LET F[k \in 0..Len(all)] ==
            IF k = 0 THEN <<>>
            ELSE IF all[k].tag = "tensor" THEN Append(F[k - 1], all[k].ref) ELSE F[k - 1]
    IN F[Len(all)]

\* the new object of a kernel: it has the class and storage of the first
\* torch operand
kernel_new(tensors) ==
    IF tensors = <<>> THEN RawObj("FloatTensor", 1)
    ELSE RawObj(heap[tensors[1]].ttype, heap[tensors[1]].data)

AllOperands(args, kwargs) == args \o [i \in 1..Len(kwargs) |-> kwargs[i].value]

\* the pointers among the operands of a call
NumPointers(all) == Cardinality({h \in Range(OperandSeq(all)) : heap[h].is_pointer})

\* the workers that own some operand of a call
OwnerSpan(all) == Cardinality(UNION {Range(heap[h].owners) : h \in Range(OperandSeq(all))})

\* ---------------------------------------------------- overload_function
\* lines 195-218: where command_workers takes the call
function_route(tensorvars) ==
    IF check_remote(tensorvars)
    THEN IF multiple_owners(tensorvars) THEN "raise" ELSE "forward"
    ELSE "local"

\* line 220: the result is of a tracked type
function_registers(result) == result.ttype \in tensorvar_types

\* a registration of the local result as a pointer
function_result_pointer == [is_pointer |-> TRUE]

\* line 221
function_result_kwargs == [is_pointer |-> FALSE]

\* lines 204 and 253: the loop over the owners, of which there is one
TheOwner(tensorvars) == CHOOSE w \in get_owners(tensorvars) : TRUE

\* lines 210-217: the command goes to the owner and the response is turned
\* into the result; shape "failed" is an exchange that raises
function_forward(command, worker, shape, base) ==
    LET msg == send_command(replace_in_command(command), worker)
        fwd == [base EXCEPT !.sent = <<msg>>, !.dest = <<worker>>]
        rid == NextId
        raw == WorkerResponse(shape, worker, rid)
    IN IF shape = "failed"
       THEN /\ UNCHANGED <<heap, objects, remote>>
            /\ last' = [fwd EXCEPT !.kind = "TransportError"]
       ELSE LET response == process_response([from |-> worker, data |-> raw])
                out == IF response.exc # "none"
                       THEN [exc |-> response.exc, result |-> "none", obj |-> NoObj]
                       ELSE pointer_or_response(response.value, rid + 1)
                made == out.exc = "none" /\ out.result = "tensor"
                s == Len(heap) + 1
                got == [fwd EXCEPT !.resp = raw,
                          !.kind = IF out.exc = "none" THEN "ok" ELSE out.exc,
                          !.val = IF out.exc = "none" /\ out.result = "response"
                                  THEN response.value.numeric ELSE 0,
                          !.result = IF out.exc = "none" THEN out.result ELSE "none"]
            IN \* the worker registers its result as rid
               /\ remote' = IF worker \in Remote /\ "registration" \in raw.keys
                            THEN [remote EXCEPT ![worker] =
                                    Store(remote[worker],
                                          [id |-> rid, owners |-> <<worker>>, is_pointer |-> FALSE,
                                           data |-> 1, ttype |-> raw.torch_type])]
                            ELSE remote
               /\ IF made
                  THEN /\ heap' = Append(heap, out.obj)
                       /\ objects' = Put(ctor_objects(Put(objects, rid, 0), out.obj.ttype, rid + 1, s),
                                         out.obj.id, s)
                       /\ last' = [got EXCEPT !.ret = s]
                  ELSE /\ heap' = heap
                       /\ objects' = IF "registration" \in raw.keys THEN Put(objects, rid, 0) ELSE objects
                       /\ last' = got

function_command_workers(func, args, kwargs) ==
    LET all == AllOperands(args, kwargs)
        part == pass_func_args(func, args, kwargs)
        command == compile_command(part, FALSE)
        tensorvars == get_tensorvars(command)
        route == function_route(tensorvars)
        base == [NoLast EXCEPT !.op = "function", !.route = route,
                   !.npointers = NumPointers(all), !.nowners = OwnerSpan(all)]
    IN CASE route = "raise" ->
              /\ UNCHANGED <<heap, objects, remote>>
              /\ last' = [base EXCEPT !.kind = "NotImplementedError"]
         [] route = "local" ->
              /\ UNCHANGED remote
              /\ IF kernel_result(func, FALSE) = "scalar"
                 THEN /\ UNCHANGED <<heap, objects>>
                      /\ last' = [base EXCEPT !.result = "scalar", !.val = 7]
                 ELSE LET raw0 == kernel_new(OperandSeq(all))
                          result == IF function_registers(raw0)
                                    THEN register_object(raw0, function_result_kwargs, NextId)
                                    ELSE raw0
                          s == Len(heap) + 1
                      IN /\ heap' = Append(heap, result)
                         /\ objects' = Put(objects, result.id, s)
                         /\ last' = [base EXCEPT !.result = "tensor", !.ret = s]
         [] route = "forward" ->
              \E shape \in ResponseShapes \cup {"failed"} :
                 function_forward(command, TheOwner(tensorvars), shape, base)

\* the calls issued: at most two arguments, positional or by keyword
CallFunction ==
    /\ Issue
    /\ UNCHANGED hooked
    /\ \E func \in Funcs, args \in UNION {[1..n -> Operands] : n \in 1..2}, kwargs \in KwArgs :
          /\ Len(args) + Len(kwargs) <= 2
          /\ function_command_workers(func, args, kwargs)

\* ------------------------------------------------------ overload_method
\* the attributes of a hooked torch object: the library's methods (saved
\* under old_ as well), the Grid-specific ones and the registration
torch_attrs(obj) ==
    Methods \cup {"old_add", "old_add_", "old_dot", "set_", "old_set_", "send_", "get_", "ser"}
    \cup (IF obj.id # 0 THEN {"id", "owners", "is_pointer"} ELSE {})

hasattr(obj, name) == name \in torch_attrs(obj)

\* lines 247-272: where command_workers takes the call
method_route(self, tensorvars) ==
    IF self.is_pointer
    THEN IF check_remote(tensorvars) /\ ~multiple_owners(tensorvars) THEN "forward" ELSE "raise"
    ELSE "local"

\* line 260: the exchange is looked up on the receiver, self.send_command
method_send_command(self) == IF hasattr(self, "send_command") THEN "ok" ELSE "AttributeError"

\* lines 274-275: the result is registered
method_registers(result) == result.ttype \in tensorvar_types /\ ~hasattr(result, "owner")

\* lines 276-277
method_result_kwargs == [is_pointer |-> FALSE]

method_command_workers(method, h, args, kwargs) ==
    LET self == heap[h]
        all == <<TensorOperand(h)>> \o AllOperands(args, kwargs)
        part == pass_method_args(method, TensorOperand(h), args, kwargs)
        command == compile_command(part, TRUE)
        tensorvars == get_tensorvars(command)
        route == method_route(self, tensorvars)
        base == [NoLast EXCEPT !.op = "method", !.h = h, !.pre = self, !.route = route,
                   !.npointers = NumPointers(all), !.nowners = OwnerSpan(all)]
    IN CASE route = "raise" ->
              /\ UNCHANGED <<heap, objects, remote>>
              /\ last' = [base EXCEPT !.kind = "NotImplementedError"]
         [] route = "forward" ->
              \* the first exchange of the loop over the owners
              /\ method_send_command(self) = "AttributeError"
              /\ UNCHANGED <<heap, objects, remote>>
              /\ last' = [base EXCEPT !.kind = "AttributeError",
                                      !.dest = <<TheOwner(tensorvars)>>]
         [] route = "local" ->
              /\ UNCHANGED remote
              /\ CASE kernel_result(method, TRUE) = "scalar" ->
                        /\ UNCHANGED <<heap, objects>>
                        /\ last' = [base EXCEPT !.result = "scalar", !.val = 7]
                   [] kernel_result(method, TRUE) = "self" ->
                        LET result == IF method_registers(self)
                                      THEN register_object(self, method_result_kwargs, NextId)
                                      ELSE self
                        IN /\ heap' = [heap EXCEPT ![h] = result]
                           /\ objects' = Put(objects, result.id, h)
                           /\ last' = [base EXCEPT !.result = "tensor", !.ret = h]
                   [] kernel_result(method, TRUE) = "new" ->
                        LET raw0 == kernel_new(OperandSeq(all))
                            result == IF method_registers(raw0)
                                      THEN register_object(raw0, method_result_kwargs, NextId)
                                      ELSE raw0
                            s == Len(heap) + 1
                        IN /\ heap' = Append(heap, result)
                           /\ objects' = Put(objects, result.id, s)
                           /\ last' = [base EXCEPT !.result = "tensor", !.ret = s]

\* the calls issued: the receiver and at most one argument
CallMethod ==
    /\ Issue
    /\ UNCHANGED hooked
    /\ \E method \in Methods, h \in Slots, args \in UNION {[1..n -> Operands] : n \in 0..1},
          kwargs \in KwArgs :
          /\ Len(args) + Len(kwargs) <= 1
          /\ method_command_workers(method, h, args, kwargs)

\* ----------------------------------------------------------------- Next
Next ==
    \/ \E t \in tensor_types, d \in Data : Construct(t, d)
    \/ Send
    \/ Get
    \/ CallFunction
    \/ CallMethod

Spec == Init /\ [][Next]_vars

\* construction of every tracked type, Variable included, the reads of
\* Variable.data and Variable.grad and the calls on the constructed objects
\* (Variable has no send_ and no get_)
ConstructTracked ==
    \/ \E t \in tensor_types, d \in Data : Construct(t, d)
    \/ \E h \in Slots : ConstructVariable(h)

TrackedNext ==
    \/ ConstructTracked
    \/ ReadData
    \/ ReadGrad
    \/ CallFunction
    \/ CallMethod

TrackedSpec == Init /\ [][TrackedNext]_vars

\* the hook pass over a tensor type, run again and again on the type as
\* the library defines it with any of its optional methods
OptionalAttrs == {"add", "add_", "dot", "size", "view_as"}

HookInit ==
    /\ heap = <<>>
    /\ objects = <<>>
    /\ remote = [w \in Remote |-> {}]
    /\ last = NoLast
    /\ ops = 0
    /\ hooked \in {LibraryType(p \cup {"set_"}) : p \in SUBSET OptionalAttrs}

HookPass ==
    /\ Issue
    /\ hooked' = hook_tensor(hooked)
    /\ last' = [NoLast EXCEPT !.op = "hook"]
    /\ UNCHANGED <<heap, objects, remote>>

HookSpec == HookInit /\ [][HookPass]_vars

\* compile_command on the captured calls of functions and of methods over
\* the objects constructed so far
Compile ==
    /\ Issue
    /\ \E has_self \in BOOLEAN, func \in Funcs,
          args \in UNION {[1..n -> Operands] : n \in 0..2}, kwargs \in KwArgs :
          LET part == IF has_self
                      THEN pass_method_args(func, args[1], Tail(args), kwargs)
                      ELSE pass_func_args(func, args, kwargs)
          IN /\ has_self => Len(args) >= 1
             /\ Len(args) + Len(kwargs) <= 2
             /\ last' = [NoLast EXCEPT !.op = "compile", !.part = part,
                                       !.command = compile_command(part, has_self)]
    /\ UNCHANGED <<heap, objects, remote, hooked>>

CompileNext ==
    \/ ConstructTracked
    \/ Compile

CompileSpec == Init /\ [][CompileNext]_vars

\* ======================================================================
\* Properties
\* ======================================================================
\* the object a worker holds under an id: the local worker's is the one its
\* registry refers to
HeldBy(w, id) ==
    IF w = SelfId
    THEN IF id \in 1..Len(objects) /\ objects[id] \in Slots THEN heap[objects[id]] ELSE NoObj
    ELSE Held(w, id)

IsCall == last.op \in {"function", "method"}

\* C1: a local handle (is_pointer false, owners {self}) with payload d that
\* is sent to a single remote worker W and then retrieved is again on the
\* local worker with payload d, the id it had before the send, and
\* is_pointer false.
C1_RoundTrip ==
    (last.op = "get" /\ last.kind = "ok" /\ last.snap.h # 0 /\ last.snap.h = last.h)
    => /\ heap[last.h].data = last.snap.data
       /\ heap[last.h].id = last.snap.id
       /\ ~heap[last.h].is_pointer

C1_Witness ==
    /\ last.op = "get" /\ last.kind = "ok" /\ last.snap.h # 0 /\ last.snap.h = last.h
    /\ last.route = "remote"
    /\ last.snap.dest = <<"B">>
    /\ last.snap.data \in Data
    /\ Len(last.sent) = 1

\* C2: after send(destinations) completes on a local handle with id i, the
\* sender's handle has id i, is_pointer true, owners = destinations and
\* zero-sized storage, and every destination worker holds an object with id
\* i, owners = destinations, is_pointer false and the original data.
C2_SendPostcondition ==
    (last.op = "send" /\ last.kind = "ok" /\ ~last.pre.is_pointer /\ last.pre.owners = <<SelfId>>)
    => /\ heap[last.h].id = last.pre.id
       /\ heap[last.h].is_pointer
       /\ heap[last.h].owners = last.dest
       /\ heap[last.h].data = Empty
       /\ \A i \in 1..Len(last.dest) :
             LET o == HeldBy(last.dest[i], last.pre.id)
             IN /\ o.id = last.pre.id
                /\ o.owners = last.dest
                /\ ~o.is_pointer
                /\ o.data = last.pre.data

\* C3: an intercepted call, function or method, whose tensor operands have
\* owners spanning more than one worker raises NotImplementedError; it is
\* not executed locally and no command is sent. (Stated for the calls with
\* a pointer among their operands.)
C3_MultiOwnerRaises ==
    (IsCall /\ last.nowners > 1 /\ last.npointers > 0)
    => /\ last.kind = "NotImplementedError"
       /\ last.route # "local"
       /\ last.sent = <<>>

\* C4: an intercepted call none of whose tensor operands is a pointer sends
\* nothing, and a result of a tracked type is returned registered with
\* is_pointer false and owners {self}.
C4_LocalCall ==
    (IsCall /\ last.npointers = 0)
    => /\ last.sent = <<>>
       /\ last.route = "local"
       /\ last.kind = "ok"
       /\ last.result = "tensor" =>
             /\ last.ret \in Slots
             /\ heap[last.ret].ttype \in tensorvar_types
             /\ heap[last.ret].id # 0
             /\ HeldBy(SelfId, heap[last.ret].id) = heap[last.ret]
             /\ ~heap[last.ret].is_pointer
             /\ heap[last.ret].owners = <<SelfId>>

C4_Witness ==
    /\ last.op = "function" /\ last.npointers = 0
    /\ last.nowners = 1
    /\ last.result = "tensor"
    /\ last.ret = Len(heap)
    /\ Len(heap) = 3

\* C5: a hooked method called on a pointer whose sole owner is a remote
\* worker W sends the compiled command to W and returns a zero-sized
\* pointer with owners <<W>>, without raising.
C5_MethodForward ==
    (last.op = "method" /\ last.pre.is_pointer /\ Len(last.pre.owners) = 1
       /\ last.pre.owners[1] \in Remote /\ last.nowners = 1)
    => /\ last.kind = "ok"
       /\ Len(last.sent) = 1
       /\ last.sent[1].to = last.pre.owners[1]
       /\ last.ret \in Slots
       /\ heap[last.ret].is_pointer
       /\ heap[last.ret].data = Empty
       /\ heap[last.ret].owners = last.pre.owners

\* a function call that was forwarded and got a response
Answered == last.op = "function" /\ last.route = "forward" /\ last.resp.py # "none"

\* the answer came from another worker
AnsweredRemotely == Answered /\ last.sent[1].to \in Remote

\* C6: when a hooked function is forwarded to its owner and the response
\* carries registration metadata and a known result type, the call returns
\* a zero-sized instance of that type registered with exactly the id,
\* owners and is_pointer of the response.
C6_ResultPointer ==
    (Answered /\ "registration" \in last.resp.keys /\ last.resp.torch_type \in tensorvar_types)
    => /\ last.kind = "ok"
       /\ last.result = "tensor"
       /\ last.ret \in Slots
       /\ heap[last.ret].ttype = last.resp.torch_type
       /\ heap[last.ret].data = Empty
       /\ heap[last.ret].id = last.resp.registration.id
       /\ heap[last.ret].owners = last.resp.registration.owners
       /\ heap[last.ret].is_pointer = last.resp.registration.is_pointer
       /\ HeldBy(SelfId, last.resp.registration.id) = heap[last.ret]

C6_Witness ==
    /\ Answered /\ "registration" \in last.resp.keys
    /\ last.resp.torch_type = "FloatTensor"
    /\ last.resp.registration.owners = <<"B">>
    /\ last.resp.registration.is_pointer
    /\ Len(last.sent) = 1 /\ last.sent[1].to = "B"
    /\ last.ret = Len(heap)

\* C7: when the response to a forwarded command carries no registration
\* metadata (a scalar as {numeric: value} or as a bare value), the call
\* returns that value to the caller: nothing is raised and no pointer is
\* constructed or registered.
C7_ScalarResponse ==
    (AnsweredRemotely /\ "registration" \notin last.resp.keys
       /\ (last.resp.py = "num" \/ "numeric" \in last.resp.keys))
    => /\ last.kind = "ok"
       /\ last.result = "response"
       /\ last.val = last.resp.numeric
       /\ last.ret = 0

\* C8: when a response carries registration metadata but names a result
\* type that is not a tracked type, the call fails with TypeError and no
\* object is registered.
C8_UnknownType ==
    (AnsweredRemotely /\ "registration" \in last.resp.keys
       /\ last.resp.torch_type \notin tensorvar_types)
    => /\ last.kind = "TypeError"
       /\ last.ret = 0

\* C9: get() on a handle whose owners include the local worker is a no-op:
\* no request is issued, the handle's id, owners, is_pointer and storage
\* are unchanged and the registry is unchanged.
C9_LocalGetNoOp ==
    (last.op = "get" /\ SelfId \in Range(last.pre.owners))
    => /\ last.sent = <<>>
       /\ last.kind = "ok"
       /\ heap[last.h] = last.pre
       /\ objects = last.preobjects

C9_Witness ==
    /\ last.op = "get" /\ SelfId \in Range(last.pre.owners)
    /\ last.pre.is_pointer
    /\ last.pre.owners = <<"A", "B">>
    /\ Holds("B", last.pre.id)

\* C10: after get() on a pointer with id i and owners O, the local worker
\* not in O, the handle is registered under i with is_pointer false and
\* storage reduce(collected), and its owners are still O.
C10_GetKeepsOwners ==
    (last.op = "get" /\ last.kind = "ok" /\ last.pre.is_pointer
       /\ SelfId \notin Range(last.pre.owners))
    => /\ heap[last.h].id = last.pre.id
       /\ HeldBy(SelfId, last.pre.id) = heap[last.h]
       /\ ~heap[last.h].is_pointer
       /\ Len(last.collected) = Len(last.pre.owners)
       /\ heap[last.h].data = (IF last.reduce = "default" THEN last.collected[1]
                               ELSE last.collected[Len(last.collected)])
       /\ heap[last.h].owners = last.pre.owners

C10_Witness ==
    /\ last.op = "get" /\ last.kind = "ok" /\ last.pre.is_pointer
    /\ last.pre.owners = <<"B", "C">>
    /\ last.reduce = "last"
    /\ Len(last.sent) = 2
    /\ heap[last.h].data \in Data

\* C11: for every tracked type, the instance an intercepted construction
\* returns is registered with is_pointer false and owners {self}, on return
\* from the construction.
C11_ConstructedLocal ==
    last.op = "construct"
    => /\ last.ret \in Slots
       /\ heap[last.ret].ttype \in tensorvar_types
       /\ heap[last.ret].id # 0
       /\ HeldBy(SelfId, heap[last.ret].id) = heap[last.ret]
       /\ ~heap[last.ret].is_pointer
       /\ heap[last.ret].owners = <<SelfId>>

C11_Witness ==
    /\ last.op = "construct"
    /\ heap[last.ret].ttype = "Variable"
    /\ \E h \in Slots : heap[h].ttype = "FloatTensor"

\* C12: hook installation is idempotent: however often the hook pass has
\* run over a type, every hooked attribute is wrapped exactly once and the
\* attribute saved under the old_ prefix is the implementation of the
\* library, not a wrapper.
C12_HookedOnce ==
    ops >= 1
    => \A a \in dir(hooked) :
          /\ a \in OldNames => hooked[a].wraps = 0
          /\ a \notin OldNames => hooked[a].wraps <= 1

\* C13: the command compiled from a captured call has, with has_self, the
\* first positional argument as self and the remaining ones in order as
\* args; arg_types[i] is the type tag of args[i]; kwarg_types maps each
\* keyword name to the type tag of that keyword's value.
C13_CommandShape ==
    last.op = "compile"
    => LET c == last.command
           p == last.part
       IN /\ c.command = p.func
          /\ c.has_self => c.self = p.args[1] /\ c.args = Tail(p.args)
          /\ ~c.has_self => c.args = p.args
          /\ c.kwargs = p.keywords
          /\ DOMAIN c.arg_types = DOMAIN c.args
          /\ \A i \in DOMAIN c.args : c.arg_types[i] = type_name(c.args[i])
          /\ c.kwargs # <<>> =>
                c.kwarg_types =
                    PyMapping([i \in 1..Len(c.kwargs) |->
                                 [name |-> c.kwargs[i].name,
                                  value |-> type_name(c.kwargs[i].value)]])

\* C14: an intercepted call is executed in-process only if none of its
\* tensor operands (self, positional, keyword) is a pointer; with a pointer
\* among them, also as argument of a method whose receiver is local, the
\* call is forwarded or rejected.
C14_LocalOnlyWithoutPointers ==
    (IsCall /\ last.npointers > 0)
    => /\ last.route \in {"forward", "raise"}
       /\ last.result # "scalar"
       /\ last.ret = 0 \/ heap[last.ret].is_pointer

\* C15: for every forwarded call exactly one request/response exchange is
\* issued to each worker of the resolved owner set, in owner order, none to
\* any other worker, and a failed exchange is not issued again: the failure
\* reaches the caller and no later exchange is started. (Stated for owners
\* other than the local worker.)
C15_OneExchangePerOwner ==
    (IsCall /\ last.route = "forward" /\ Range(last.dest) \subseteq Remote)
    => /\ last.dest # <<>>
       /\ Len(last.sent) <= Len(last.dest)
       /\ \A i \in 1..Len(last.sent) :
             last.sent[i].ch = "command" /\ last.sent[i].to = last.dest[i]
       /\ last.kind = "TransportError" \/ Len(last.sent) = Len(last.dest)
       /\ last.kind = "TransportError" => last.ret = 0

\* C16: in send(handle, destinations) the local storage is replaced by the
\* placeholder and the handle marked is_pointer true only after the full
\* payload went to every destination; if the transmission to a destination
\* fails, the handle still holds its data and is_pointer false, while its
\* owners already read destinations.
C16_SendOrdering ==
    last.op = "send"
    => /\ \A i \in 1..Len(last.sent) :
             /\ last.sent[i].to = last.dest[i]
             /\ last.sent[i].msg.data = last.pre.data
       /\ last.kind = "ok" =>
             /\ Len(last.sent) = Len(last.dest)
             /\ heap[last.h].is_pointer
             /\ heap[last.h].data = Empty
       /\ last.kind # "ok" =>
             /\ Len(last.sent) < Len(last.dest)
             /\ heap[last.h].data = last.pre.data
             /\ ~heap[last.h].is_pointer
             /\ heap[last.h].owners = last.dest
             /\ heap[last.h].id = last.pre.id

C16_Witness ==
    /\ last.op = "send" /\ last.kind = "TransportError"
    /\ last.dest = <<"B", "C">>
    /\ Len(last.sent) = 1
    /\ last.pre.data \in Data
    /\ Holds("B", last.pre.id) /\ ~Holds("C", last.pre.id)

\* C17: in every reachable state no handle on a worker has is_pointer true
\* while that worker is among the owners of the handle.
C17_NoPointerToSelf ==
    /\ \A h \in Slots : ~(heap[h].is_pointer /\ SelfId \in Range(heap[h].owners))
    /\ \A w \in Remote : \A r \in remote[w] : ~(r.is_pointer /\ w \in Range(r.owners))

\* C18: after any sequence of send and get operations on a handle, a send
\* of a handle that is already a pointer included, every worker listed in
\* the owners of the handle holds the payload, not a placeholder, under the
\* id of the handle. (Stated for the pointers all of whose owners are other
\* workers.)
C18_OwnersHoldPayload ==
    \A h \in Slots :
        (heap[h].is_pointer /\ Range(heap[h].owners) \subseteq Remote)
        => \A w \in Range(heap[h].owners) :
              /\ Holds(w, heap[h].id)
              /\ ~Held(w, heap[h].id).is_pointer
              /\ Held(w, heap[h].id).data # Empty

\* C19: a hooked method executed locally on a non-pointer receiver leaves
\* the registration of the receiver (id, owners, is_pointer) unchanged, also
\* when the method returns the receiver itself; only a result distinct from
\* the receiver is registered under a fresh id.
C19_ReceiverFrame ==
    (last.op = "method" /\ last.route = "local" /\ ~last.pre.is_pointer)
    => /\ heap[last.h].id = last.pre.id
       /\ heap[last.h].owners = last.pre.owners
       /\ heap[last.h].is_pointer = last.pre.is_pointer
       /\ HeldBy(SelfId, last.pre.id) = heap[last.h]

====
